---- MODULE Spec2Model ----
(***************************************************************************)
(* Compound interest calculator (cic): the projection engine               *)
(* Investment::yearly_summary, the validating constructor                  *)
(* Investment::from_params, the HTTP handler calculate_investment and the  *)
(* command line entry point run.                                           *)
(*                                                                         *)
(* The engine computes in f64.  f64 values are modelled bit-exactly as     *)
(* IEEE 754 binary64 numbers (53 bit significand, round to nearest even,   *)
(* signed zero, subnormals, infinities, NaN).  Significands are kept as    *)
(* little-endian sequences of 15 bit limbs, so that no intermediate value  *)
(* exceeds the range of the model checker's integers.                      *)
(***************************************************************************)
EXTENDS Integers, Sequences, FiniteSets, TLC

(***************************************************************************)
(* Let1(v, F) is F(v) with v evaluated once, before F is applied.  The     *)
(* operators below bind their arguments and intermediate results this way, *)
(* so that the cost of evaluating them does not depend on how an           *)
(* interpreter shares the values of LET definitions and of arguments.      *)
(***************************************************************************)
Let1(v1, F(_)) == CHOOSE r \in {F(b1) : b1 \in {v1}} : TRUE
Let2(v1, v2, F(_, _)) ==
    CHOOSE r \in {F(b1, b2) : b1 \in {v1}, b2 \in {v2}} : TRUE

(***************************************************************************)
(* Natural numbers of arbitrary size: little-endian sequences of limbs in  *)
(* 0 .. Base-1 without leading (high) zero limbs; <<>> is zero.            *)
(***************************************************************************)
Base == 2^15

Max(S) == CHOOSE x \in S : \A y \in S : y <= x

\* a without its leading zero limbs
BigNorm(a) ==
    Let1(a, LAMBDA x :
      Let1({i \in 1 .. Len(x) : x[i] # 0},
           LAMBDA nz : IF nz = {} THEN <<>> ELSE SubSeq(x, 1, Max(nz))))

\* the limbs of n, for 0 <= n < 2^31
BigOfNat(n) ==
    Let1(n, LAMBDA k :
      BigNorm(<<k % Base, (k \div Base) % Base, k \div (Base * Base)>>))

\* number of significant bits of n, for 0 <= n < Base
SmallBitLen(n) ==
    Let1(n, LAMBDA k :
      IF k = 0 THEN 0 ELSE Max({i \in 1 .. 15 : 2^(i - 1) <= k}))

\* number of significant bits of a
BigBitLen(a) ==
    Let1(a, LAMBDA x :
      IF x = <<>> THEN 0 ELSE 15 * (Len(x) - 1) + SmallBitLen(x[Len(x)]))

Limb(a, i) == IF i >= 1 /\ i <= Len(a) THEN a[i] ELSE 0

\* -1, 0, 1 as a < b, a = b, a > b
BigCmp(a, b) ==
    Let2(a, b, LAMBDA x, y :
      Let1({i \in 1 .. (IF Len(x) > Len(y) THEN Len(x) ELSE Len(y)) :
                Limb(x, i) # Limb(y, i)},
           LAMBDA diff :
             IF diff = {} THEN 0
             ELSE IF Limb(x, Max(diff)) < Limb(y, Max(diff)) THEN -1
             ELSE 1))

\* the limbs of a + b from limb i on, given the carry into limb i
RECURSIVE BigAddFrom(_, _, _, _)
BigAddFrom(a, b, i, carry) ==
    IF i > Len(a) /\ i > Len(b)
    THEN (IF carry = 0 THEN <<>> ELSE <<carry>>)
    ELSE Let2(Limb(a, i) + Limb(b, i) + carry, i + 1,
              LAMBDA t, j : <<t % Base>> \o BigAddFrom(a, b, j, t \div Base))

BigAdd(a, b) == Let2(a, b, LAMBDA x, y : BigAddFrom(x, y, 1, 0))

\* the limbs of a - b from limb i on, given the borrow out of limb i
RECURSIVE BigSubFrom(_, _, _, _)
BigSubFrom(a, b, i, borrow) ==
    IF i > Len(a) THEN <<>>
    ELSE Let2(Limb(a, i) - Limb(b, i) - borrow, i + 1,
              LAMBDA t, j : IF t < 0
                            THEN <<t + Base>> \o BigSubFrom(a, b, j, 1)
                            ELSE <<t>> \o BigSubFrom(a, b, j, 0))

\* a - b for a >= b
BigSub(a, b) == Let2(a, b, LAMBDA x, y : BigNorm(BigSubFrom(x, y, 1, 0)))

\* the limbs of a * k from limb i on, given the carry into limb i
RECURSIVE BigMulSmallFrom(_, _, _, _)
BigMulSmallFrom(a, k, i, carry) ==
    IF i > Len(a)
    THEN (IF carry = 0 THEN <<>> ELSE <<carry>>)
    ELSE Let2(a[i] * k + carry, i + 1,
              LAMBDA t, j : <<t % Base>> \o BigMulSmallFrom(a, k, j, t \div Base))

\* a * k for 0 <= k <= Base
BigMulSmall(a, k) ==
    Let2(a, k, LAMBDA x, n : BigNorm(BigMulSmallFrom(x, n, 1, 0)))

ShiftLimb(a) == Let1(a, LAMBDA x : IF x = <<>> THEN <<>> ELSE <<0>> \o x)

\* a * (b[j] + b[j+1] * Base + ...)
RECURSIVE BigMulFrom(_, _, _)
BigMulFrom(a, b, j) ==
    IF j > Len(b) THEN <<>>
    ELSE Let1(j + 1, LAMBDA k :
           BigAdd(BigMulSmall(a, b[j]), ShiftLimb(BigMulFrom(a, b, k))))

BigMul(a, b) == Let2(a, b, LAMBDA x, y : BigNorm(BigMulFrom(x, y, 1)))

\* a * 2^n
BigShl(a, n) ==
    Let2(a, n, LAMBDA x, k :
      IF x = <<>> THEN <<>>
      ELSE [i \in 1 .. (k \div 15) |-> 0] \o BigMulSmall(x, 2^(k % 15)))

\* the remainders left after dividing the limbs of a from limb i up by d
RECURSIVE RemFrom(_, _, _)
RemFrom(a, d, i) ==
    IF i > Len(a) THEN <<>>
    ELSE Let1(RemFrom(a, d, i + 1), LAMBDA above :
           <<((IF above = <<>> THEN 0 ELSE above[1]) * Base + a[i]) % d>>
               \o above)

\* quotient and remainder of a by d, for 0 < d <= Base
BigDivSmall(a, d) ==
    Let2(a, d, LAMBDA x, n :
      Let1(RemFrom(x, n, 1) \o <<0>>, LAMBDA rem :
        [q |-> BigNorm([i \in 1 .. Len(x) |->
                          (rem[i + 1] * Base + x[i]) \div n]),
         r |-> rem[1]]))

\* floor(a / 2^n), and whether a nonzero remainder was dropped
BigShr(a, n) ==
    Let2(a, n, LAMBDA x, k :
      Let1(BigDivSmall(IF k \div 15 >= Len(x) THEN <<>>
                       ELSE SubSeq(x, (k \div 15) + 1, Len(x)),
                       2^(k % 15)),
           LAMBDA res :
             [q |-> res.q,
              sticky |-> res.r # 0
                         \/ \E i \in 1 .. Len(x) : i <= k \div 15 /\ x[i] # 0]))

BigIsOdd(a) == Let1(a, LAMBDA x : x # <<>> /\ x[1] % 2 = 1)

BigBit(a, i) == (Limb(a, (i \div 15) + 1) \div 2^(i % 15)) % 2

\* one step of long division: bring down bit i of a
DivStep(a, b, i, st) ==
    Let1(BigAdd(BigMulSmall(st.r, 2), BigOfNat(BigBit(a, i))), LAMBDA t :
      IF BigCmp(t, b) >= 0
      THEN [q |-> BigAdd(BigMulSmall(st.q, 2), <<1>>), r |-> BigSub(t, b)]
      ELSE [q |-> BigMulSmall(st.q, 2), r |-> t])

\* long division over bits hi down to lo of a, one bit per step; the range
\* is halved rather than walked so that the nesting stays shallow
RECURSIVE BigDivModFrom(_, _, _, _, _)
BigDivModFrom(a, b, hi, lo, st) ==
    IF hi < lo THEN st
    ELSE IF hi = lo THEN DivStep(a, b, hi, st)
    ELSE Let1((hi + lo + 1) \div 2, LAMBDA mid :
           Let1(BigDivModFrom(a, b, hi, mid, st), LAMBDA upper :
             BigDivModFrom(a, b, mid - 1, lo, upper)))

\* quotient and remainder of a by b, for b # 0
BigDivMod(a, b) ==
    Let2(a, b, LAMBDA x, y :
      BigDivModFrom(x, y, BigBitLen(x) - 1, 0, [q |-> <<>>, r |-> <<>>]))

(***************************************************************************)
(* f64: IEEE 754 binary64.  A finite value is (-1)^s * m * 2^e with        *)
(* m < 2^53 and MinExp <= e <= MaxExp, in canonical form: m has exactly    *)
(* 53 bits, or e = MinExp (subnormals and zero).                           *)
(***************************************************************************)
MantissaDigits == 53
MinExp == -1074
MaxExp == 971

Fin(s, m, e) == [k |-> "fin", s |-> s, m |-> m, e |-> e]
Inf(s) == [k |-> "inf", s |-> s, m |-> <<>>, e |-> 0]
NaN == [k |-> "nan", s |-> 0, m |-> <<>>, e |-> 0]
Zero(s) == Fin(s, <<>>, MinExp)

IsNaN(x) == x.k = "nan"
IsInf(x) == x.k = "inf"
IsFinite(x) == x.k = "fin"
IsZero(x) == x.k = "fin" /\ x.m = <<>>

Xor(s, t) == (s + t) % 2

\* (-1)^s * m * 2^e, or the infinity when e is too large
Pack(s, m, e) ==
    Let1(e, LAMBDA ee : IF ee > MaxExp THEN Inf(s) ELSE Fin(s, m, ee))

\* the rounded significand r at exponent e, renormalised when the rounding
\* carried into a 54th bit
Carry(s, r, e) ==
    Let1(r, LAMBDA rr :
      IF BigBitLen(rr) > MantissaDigits
      THEN Pack(s, BigShr(rr, 1).q, e + 1)
      ELSE Pack(s, rr, e))

\* round to nearest, ties to even: cut holds the significand with one extra
\* low bit, and whether anything nonzero lies below that bit
Nearest(s, cut, e, sticky) ==
    Let2(cut, sticky, LAMBDA c, st :
      Let1(BigShr(c.q, 1).q, LAMBDA q :
        Carry(s,
              IF BigIsOdd(c.q) /\ (c.sticky \/ st \/ BigIsOdd(q))
              THEN BigAdd(q, <<1>>) ELSE q,
              e)))

\* the f64 nearest to (-1)^s * (m + f) * 2^e, ties to even, where 0 <= f < 1
\* and f # 0 iff sticky
Round(s, m, e, sticky) ==
    Let2(m, e, LAMBDA mm, ee :
      IF mm = <<>> THEN Zero(s)
      ELSE Let1(IF ee + BigBitLen(mm) - MantissaDigits > MinExp
                THEN ee + BigBitLen(mm) - MantissaDigits ELSE MinExp,
                LAMBDA e1 :
                  IF e1 <= ee THEN Pack(s, BigShl(mm, ee - e1), e1)
                  ELSE Nearest(s, BigShr(mm, e1 - ee - 1), e1, sticky)))

\* `n as f64` for an i32 n (exact)
FromInt(n) ==
    Let1(n, LAMBDA k :
      IF k < 0 THEN Round(1, BigOfNat(-k), 0, FALSE)
      ELSE Round(0, BigOfNat(k), 0, FALSE))

\* comparison of magnitudes of two values that are not NaN: -1, 0, 1
CmpMag(x, y) ==
    IF IsInf(x) THEN (IF IsInf(y) THEN 0 ELSE 1)
    ELSE IF IsInf(y) THEN -1
    ELSE IF x.e < y.e THEN -1
    ELSE IF x.e > y.e THEN 1
    ELSE BigCmp(x.m, y.m)

\* partial_cmp: "lt", "eq", "gt", or "none" when either side is NaN
PartialCmp(x, y) ==
    Let2(x, y, LAMBDA a, b :
      IF IsNaN(a) \/ IsNaN(b) THEN "none"
      ELSE IF IsZero(a) /\ IsZero(b) THEN "eq"
      ELSE IF a.s # b.s THEN (IF a.s = 1 THEN "lt" ELSE "gt")
      ELSE Let1(IF a.s = 0 THEN CmpMag(a, b) ELSE CmpMag(b, a), LAMBDA c :
             IF c < 0 THEN "lt" ELSE IF c > 0 THEN "gt" ELSE "eq"))

FLt(x, y) == PartialCmp(x, y) = "lt"
FLe(x, y) == PartialCmp(x, y) \in {"lt", "eq"}
FEq(x, y) == PartialCmp(x, y) = "eq"

\* x * y
FMul(x, y) ==
    Let2(x, y, LAMBDA a, b :
      IF IsNaN(a) \/ IsNaN(b) THEN NaN
      ELSE IF (IsInf(a) /\ IsZero(b)) \/ (IsZero(a) /\ IsInf(b)) THEN NaN
      ELSE IF IsInf(a) \/ IsInf(b) THEN Inf(Xor(a.s, b.s))
      ELSE IF IsZero(a) \/ IsZero(b) THEN Zero(Xor(a.s, b.s))
      ELSE Round(Xor(a.s, b.s), BigMul(a.m, b.m), a.e + b.e, FALSE))

\* x + y for finite nonzero x, y with x.e >= y.e; beyond 64 bits of
\* distance y is less than a quarter of the last place of x
AddAligned(x, y) ==
    IF x.e - y.e > 64 THEN x
    ELSE Let1(BigShl(x.m, x.e - y.e), LAMBDA xm :
           Let1(BigCmp(xm, y.m), LAMBDA c :
             IF x.s = y.s THEN Round(x.s, BigAdd(xm, y.m), y.e, FALSE)
             ELSE IF c = 0 THEN Zero(0)
             ELSE IF c > 0 THEN Round(x.s, BigSub(xm, y.m), y.e, FALSE)
             ELSE Round(y.s, BigSub(y.m, xm), y.e, FALSE)))

\* x + y
FAdd(x, y) ==
    Let2(x, y, LAMBDA a, b :
      IF IsNaN(a) \/ IsNaN(b) THEN NaN
      ELSE IF IsInf(a) /\ IsInf(b) THEN (IF a.s = b.s THEN a ELSE NaN)
      ELSE IF IsInf(a) THEN a
      ELSE IF IsInf(b) THEN b
      ELSE IF IsZero(a) /\ IsZero(b)
           THEN (IF a.s = 1 /\ b.s = 1 THEN Zero(1) ELSE Zero(0))
      ELSE IF IsZero(a) THEN b
      ELSE IF IsZero(b) THEN a
      ELSE IF a.e >= b.e THEN AddAligned(a, b)
      ELSE AddAligned(b, a))

\* x / y for finite nonzero x, y: x.m is first shifted to carry 64 bits
\* more than a full significand
DivFinite(x, y) ==
    Let1(64 + MantissaDigits - BigBitLen(x.m), LAMBDA up :
      Let1(BigDivMod(BigShl(x.m, up), y.m), LAMBDA res :
        Round(Xor(x.s, y.s), res.q, x.e - up - y.e, res.r # <<>>)))

\* x / y
FDiv(x, y) ==
    Let2(x, y, LAMBDA a, b :
      IF IsNaN(a) \/ IsNaN(b) THEN NaN
      ELSE IF IsInf(a) THEN (IF IsInf(b) THEN NaN ELSE Inf(Xor(a.s, b.s)))
      ELSE IF IsInf(b) THEN Zero(Xor(a.s, b.s))
      ELSE IF IsZero(b) THEN (IF IsZero(a) THEN NaN ELSE Inf(Xor(a.s, b.s)))
      ELSE IF IsZero(a) THEN Zero(Xor(a.s, b.s))
      ELSE DivFinite(a, b))

FNeg(x) == Let1(x, LAMBDA a : IF IsNaN(a) THEN NaN ELSE [a EXCEPT !.s = 1 - a.s])

\* x - y
FSub(x, y) == FAdd(x, FNeg(y))

(***************************************************************************)
(* Option<T>: None is the empty sequence, Some(v) the sequence <<v>>.      *)
(***************************************************************************)
None == <<>>
Some(v) == <<v>>
IsSome(o) == o # <<>>
Unwrap(o) == o[1]

(***************************************************************************)
(* Bounds and the inputs drawn from them.                                  *)
(***************************************************************************)
MaxYears == 3

\* 2^1023, a finite f64 whose multiples overflow
Huge == Fin(0, <<0, 0, 0, 128>>, MaxExp)

\* 0.01 and 0.1 as f64 (the correctly rounded quotients)
Cent == FDiv(FromInt(1), FromInt(100))
Tenth == FDiv(FromInt(1), FromInt(10))

\* non-negative inputs of the engine
ValidPrincipals == {FromInt(0), FromInt(1), FromInt(1000), Huge}
ValidContributions == {FromInt(0), Cent, Tenth, FromInt(100), Huge}
ValidRates == {FromInt(0), FromInt(5)}
ValidYears == 0 .. MaxYears

(***************************************************************************)
(* calculations.rs: Investment and the projection engine                   *)
(***************************************************************************)
Investment(principal, contribution, rate, years) ==
    [principal |-> principal, contribution |-> contribution,
     rate |-> rate, years |-> years]

\* let rate_per_period = self.rate / 100.0
rate_per_period(self) == FDiv(self.rate, FromInt(100))

\* let annual_contribution = self.contribution * 12.0
annual_contribution(self) == FMul(self.contribution, FromInt(12))

\* let annual_interest = amount * rate_per_period
annual_interest(amount, rate) == FMul(amount, rate)

\* a variant that keeps only the latest interest, against which C9 is tested
add_interest_latest(total_interest, interest) == interest

\* total_interest += annual_interest
add_interest(total_interest, interest) == FAdd(total_interest, interest)

\* a variant that credits the interest alone, against which C8 is tested
add_amount_interest_only(amount, contribution, interest) ==
    FAdd(amount, interest)

\* amount += annual_contribution + annual_interest
add_amount(amount, contribution, interest) ==
    FAdd(amount, FAdd(contribution, interest))

\* a variant that counts one month a year, against which C10 is tested
total_contribution_monthly(self, year) ==
    FMul(self.contribution, FromInt(year))

\* total_contribution: self.contribution * 12.0 * year as f64
total_contribution(self, year) ==
    FMul(FMul(self.contribution, FromInt(12)), FromInt(year))

\* a variant with the exclusive range 1..self.years, against which C1 is
\* tested
last_year_exclusive(self) == self.years - 1

\* the last year of the range 1..=self.years
last_year(self) == self.years

\* the YearlySummary pushed at the end of an iteration
YearlySummary(self, year, contribution, interest, total_interest, amount) ==
    [year |-> year,
     principal |-> self.principal,
     annual_contribution |-> contribution,
     total_contribution |-> total_contribution(self, year),
     annual_interest |-> interest,
     total_interest |-> total_interest,
     total_amount |-> amount]

\* a variant that adds the contribution before the interest is computed,
\* against which C2 is tested
LoopBody_contribution_first(self, rate, year, loc) ==
    Let2(annual_contribution(self),
         annual_interest(FAdd(loc.amount, annual_contribution(self)), rate),
      LAMBDA contribution, interest :
        Let2(add_interest(loc.total_interest, interest),
             add_amount(loc.amount, contribution, interest),
          LAMBDA total, amount :
            [amount |-> amount,
             total_interest |-> total,
             summary |-> Append(loc.summary,
                                YearlySummary(self, year, contribution,
                                              interest, total, amount))]))

\* one iteration of the loop over 1..=self.years: the locals amount,
\* total_interest and summary after it, from the locals loc before it
LoopBody(self, rate, year, loc) ==
    Let2(annual_contribution(self), annual_interest(loc.amount, rate),
      LAMBDA contribution, interest :
        Let2(add_interest(loc.total_interest, interest),
             add_amount(loc.amount, contribution, interest),
          LAMBDA total, amount :
            [amount |-> amount,
             total_interest |-> total,
             summary |-> Append(loc.summary,
                                YearlySummary(self, year, contribution,
                                              interest, total, amount))]))

RECURSIVE Loop(_, _, _, _)
Loop(self, rate, year, loc) ==
    IF year > last_year(self) THEN loc
    ELSE Let1(LoopBody(self, rate, year, loc),
              LAMBDA after : Loop(self, rate, year + 1, after))

\* Investment::yearly_summary for self.years >= 0
yearly_summary(self) ==
    Let1(rate_per_period(self), LAMBDA rate :
      Loop(self, rate, 1, [amount |-> self.principal,
                           total_interest |-> FromInt(0),
                           summary |-> <<>>]).summary)

\* Vec::with_capacity(self.years as usize) panics with a capacity overflow
\* for a negative i32: the cast gives a length beyond isize::MAX bytes
yearly_summary_panics(self) == self.years < 0

(***************************************************************************)
(* server.rs: InvestmentParams, its serde defaults, and the handler        *)
(***************************************************************************)
default_principal == FromInt(0)
default_contribution == FromInt(1)
default_rate == FromInt(5)
default_years == 5

\* a variant with the command line default of years, against which C7 is
\* tested
Deserialize_cli_years(body) ==
    [principal    |-> IF IsSome(body.principal)
                      THEN Unwrap(body.principal) ELSE default_principal,
     contribution |-> IF IsSome(body.contribution)
                      THEN Unwrap(body.contribution) ELSE default_contribution,
     rate         |-> IF IsSome(body.rate)
                      THEN Unwrap(body.rate) ELSE default_rate,
     years        |-> IF IsSome(body.years) THEN Unwrap(body.years) ELSE 0]

\* #[serde(default = "...")] on each field of InvestmentParams: body is the
\* decoded JSON object, every field an Option
Deserialize(body) ==
    [principal    |-> IF IsSome(body.principal)
                      THEN Unwrap(body.principal) ELSE default_principal,
     contribution |-> IF IsSome(body.contribution)
                      THEN Unwrap(body.contribution) ELSE default_contribution,
     rate         |-> IF IsSome(body.rate)
                      THEN Unwrap(body.rate) ELSE default_rate,
     years        |-> IF IsSome(body.years)
                      THEN Unwrap(body.years) ELSE default_years]

NegativeValues == "Negative values are not allowed"

\* a variant that tests the three amounts only, against which C3 is tested
is_negative_amounts(params) ==
    \/ FLt(params.principal, FromInt(0))
    \/ FLt(params.contribution, FromInt(0))
    \/ FLt(params.rate, FromInt(0))

\* the test of Investment::from_params
is_negative(params) ==
    \/ FLt(params.principal, FromInt(0))
    \/ FLt(params.contribution, FromInt(0))
    \/ FLt(params.rate, FromInt(0))
    \/ params.years < 0

\* Investment::from_params: Result<Investment, &str>
from_params(params) ==
    IF is_negative(params)
    THEN [ok |-> None, err |-> Some(NegativeValues)]
    ELSE [ok |-> Some(Investment(params.principal, params.contribution,
                                 params.rate, params.years)),
          err |-> None]

\* an f64 as a JSON value: serde_json writes a number, and null for
\* infinities and NaN
JsonNumber(x) == IF IsFinite(x) THEN Some(x) ELSE None

JsonSnapshot(snap) ==
    [year |-> snap.year,
     principal |-> JsonNumber(snap.principal),
     annual_contribution |-> JsonNumber(snap.annual_contribution),
     total_contribution |-> JsonNumber(snap.total_contribution),
     annual_interest |-> JsonNumber(snap.annual_interest),
     total_interest |-> JsonNumber(snap.total_interest),
     total_amount |-> JsonNumber(snap.total_amount)]

\* json!(summary), to_string_pretty(&summary)
ToJson(result) == [i \in 1 .. Len(result) |-> JsonSnapshot(result[i])]

BadRequest(msg) == [status |-> 400, error |-> msg, json |-> <<>>]
Ok200(json) == [status |-> 200, error |-> "", json |-> json]

\* a handler without the validation step, against which C6 is tested
calculate_investment_unvalidated(body) ==
    Let1(Deserialize(body), LAMBDA params :
      Let1(yearly_summary(params), LAMBDA result :
        [investment |-> Some(params), summary |-> Some(result),
         response |-> Ok200(ToJson(result))]))

\* calculate_investment on a decoded body: the Investment built, the summary
\* computed and the response returned
calculate_investment(body) ==
    Let1(from_params(Deserialize(body)), LAMBDA made :
      IF IsSome(made.err)
      THEN [investment |-> None, summary |-> None,
            response |-> BadRequest(Unwrap(made.err))]
      ELSE Let1(yearly_summary(Unwrap(made.ok)), LAMBDA result :
             [investment |-> made.ok, summary |-> Some(result),
              response |-> Ok200(ToJson(result))]))

(***************************************************************************)
(* main.rs and calculations.rs: the command line path                      *)
(***************************************************************************)
\* str::parse::<f64> on the argument strings used here
ParseF64(str) ==
    CASE str = "0"    -> Some(FromInt(0))
      [] str = "2"    -> Some(FromInt(2))
      [] str = "5"    -> Some(FromInt(5))
      [] str = "100"  -> Some(FromInt(100))
      [] str = "1000" -> Some(FromInt(1000))
      [] str = "-1"   -> Some(FromInt(-1))
      [] str = "inf"  -> Some(Inf(0))
      [] OTHER        -> None

\* str::parse::<i32> on the argument strings used here
ParseI32(str) ==
    CASE str = "0"    -> Some(0)
      [] str = "2"    -> Some(2)
      [] str = "5"    -> Some(5)
      [] str = "100"  -> Some(100)
      [] str = "1000" -> Some(1000)
      [] str = "-1"   -> Some(-1)
      [] OTHER        -> None

\* get_one(name).and_then(|s| s.parse().ok()) for an f64 field: given is the
\* string of the option, if any
GetF64(given) == IF IsSome(given) THEN ParseF64(Unwrap(given)) ELSE None

\* the same for the i32 field
GetI32(given) == IF IsSome(given) THEN ParseI32(Unwrap(given)) ELSE None

\* .unwrap_or(default)
UnwrapOr(parsed, default) == IF IsSome(parsed) THEN Unwrap(parsed) ELSE default

\* Investment::from_matches: matches holds each option's string, if given
from_matches(matches) ==
    Investment(UnwrapOr(GetF64(matches.principal), FromInt(0)),
               UnwrapOr(GetF64(matches.contribution), FromInt(1)),
               UnwrapOr(GetF64(matches.rate), FromInt(5)),
               UnwrapOr(GetI32(matches.years), 0))

\* env::args().len(): the program name, one word --name=value for every
\* option given, and the --json flag
ArgsLen(matches) ==
    1 + (IF IsSome(matches.principal) THEN 1 ELSE 0)
      + (IF IsSome(matches.contribution) THEN 1 ELSE 0)
      + (IF IsSome(matches.rate) THEN 1 ELSE 0)
      + (IF IsSome(matches.years) THEN 1 ELSE 0)
      + (IF matches.json THEN 1 ELSE 0)

\* .max_by(|a, b| a.partial_cmp(b).unwrap()) over total_amount from element
\* i on, acc the maximum so far: None when the unwrap of a comparison panics
RECURSIVE MaxByFrom(_, _, _)
MaxByFrom(result, i, acc) ==
    IF i > Len(result) THEN Some(acc)
    ELSE Let1(PartialCmp(acc, result[i].total_amount), LAMBDA c :
           IF c = "none" THEN None
           ELSE MaxByFrom(result, i + 1,
                          IF c = "gt" THEN acc ELSE result[i].total_amount))

\* the loop of plot_summary over the snapshots from element i on: acc is
\* accumulated_principal_and_contribution, out the vector pushed so far
RECURSIVE SeriesFrom(_, _, _, _)
SeriesFrom(result, i, acc, out) ==
    IF i > Len(result) THEN out
    ELSE Let1(FAdd(acc, result[i].annual_contribution), LAMBDA next :
           SeriesFrom(result, i + 1, next,
                      Append(out, FAdd(result[i].principal, next))))

\* a variant that leaves the principal out of the series, against which
\* C11 is tested
contribution_only(result) ==
    [i \in 1 .. Len(result) |->
        FMul(result[i].annual_contribution, FromInt(i))]

\* the values of the series labelled "Principal + Contribution"
principal_and_contribution(result) == SeriesFrom(result, 1, FromInt(0), <<>>)

\* the series plot_summary has drawn: it reaches draw_series only when no
\* earlier step has panicked or returned an error
drawn_series(result, outcome) ==
    IF outcome = "ok" THEN principal_and_contribution(result) ELSE <<>>

\* plot_summary: io is what the drawing backend does.  root.fill(..)? comes
\* first; then the y range is computed, where .unwrap() panics on the None
\* of an empty sequence and on a NaN in a comparison; every later step
\* returns its error with ?
plot_summary(result, io) ==
    IF io = "fill_err" THEN "err"
    ELSE IF Len(result) = 0 THEN "panic"
    ELSE IF MaxByFrom(result, 2, result[1].total_amount) = None THEN "panic"
    ELSE IF io = "draw_err" THEN "err"
    ELSE "ok"

\* the usage hint printed when no argument is given
Usage == "cls --help for usage"
FailedToPlot == "Failed to plot summary"

Exit(made, result, out, err, panic, drawn) ==
    [investment |-> made, summary |-> result, stdout |-> out,
     stderr |-> err, panicked |-> panic, plot |-> drawn]

\* run: what one invocation constructs, prints and draws
run(matches, io) ==
    IF ArgsLen(matches) = 1
    THEN Exit(None, None, <<[text |-> Usage, json |-> <<>>]>>, <<>>,
              FALSE, "none")
    ELSE Let1(from_matches(matches), LAMBDA made :
      IF yearly_summary_panics(made)
      THEN Exit(Some(made), None, <<>>, <<>>, TRUE, "none")
      ELSE Let1(yearly_summary(made), LAMBDA result :
        IF matches.json
        THEN Exit(Some(made), Some(result),
                  <<[text |-> "", json |-> ToJson(result)]>>,
                  <<>>, FALSE, "none")
        ELSE Let1(plot_summary(result, io), LAMBDA drawn :
               Exit(Some(made), Some(result), <<>>,
                    IF drawn = "err" THEN <<FailedToPlot>> ELSE <<>>,
                    drawn = "panic", drawn))))

(***************************************************************************)
(* The state machine.  No state is shared between calls, requests or       *)
(* invocations, so a behaviour is one operation applied to one input; the  *)
(* input and everything the operation produced are kept in the state.      *)
(***************************************************************************)
VARIABLES
    op,          \* the operation invoked, "none" before
    arg,         \* Option: its input
    pc,          \* "start" before the operation has run, "done" after
    investment,  \* Option<Investment>: the Investment constructed
    summary,     \* Option<Vec<YearlySummary>>: the sequence computed
    response,    \* Option: the HTTP response, or the Err of from_params
    stdout,      \* what the command line run printed
    stderr,      \* what it reported
    panicked,    \* whether the operation ended in a panic
    plot,        \* "none", "ok", "err" or "panic": the outcome of plot_summary
    chart        \* the "Principal + Contribution" series drawn, <<>> if none

vars == <<op, arg, pc, investment, summary, response, stdout, stderr,
          panicked, plot, chart>>

Investments ==
    {Investment(p, c, r, y) : p \in ValidPrincipals, c \in ValidContributions,
                              r \in ValidRates, y \in ValidYears}

\* InvestmentParams as passed to from_params (-0.0 is not less than 0.0)
Params ==
    [principal    : {FromInt(-1), Zero(1), FromInt(0), FromInt(1000)},
     contribution : {FromInt(-1), FromInt(0), FromInt(100)},
     rate         : {FromInt(-1), FromInt(0), FromInt(5)},
     years        : {-1, 0, MaxYears}]

\* decoded JSON request bodies: every field present or absent
Bodies ==
    [principal    : {None, Some(FromInt(-1)), Some(FromInt(1000)), Some(Huge)},
     contribution : {None, Some(FromInt(-1)), Some(Cent), Some(Huge)},
     rate         : {None, Some(FromInt(-1)), Some(FromInt(0))},
     years        : {None, Some(-1)} \cup {Some(y) : y \in ValidYears}]

\* command lines: every option given with a string, or absent
Matches ==
    [principal    : {None, Some("-1"), Some("1000"), Some("inf")},
     contribution : {None, Some("-1"), Some("100")},
     rate         : {None, Some("-1"), Some("0"), Some("5")},
     years        : {None, Some("-1"), Some("0"), Some("2"), Some("abc")},
     json         : BOOLEAN]

\* what the drawing backend does in a run
Backends == {"ok", "fill_err", "draw_err"}

Init ==
    /\ op = "none"
    /\ arg = None
    /\ pc = "start"
    /\ investment = None
    /\ summary = None
    /\ response = None
    /\ stdout = <<>>
    /\ stderr = <<>>
    /\ panicked = FALSE
    /\ plot = "none"
    /\ chart = <<>>

\* a library call of Investment::yearly_summary
YearlySummaryCall ==
    /\ pc = "start"
    /\ \E self \in Investments :
         /\ arg' = Some(self)
         /\ investment' = Some(self)
         /\ summary' = Some(yearly_summary(self))
    /\ op' = "yearly_summary"
    /\ pc' = "done"
    /\ UNCHANGED <<response, stdout, stderr, panicked, plot, chart>>

\* a library call of Investment::from_params
FromParamsCall ==
    /\ pc = "start"
    /\ \E params \in Params :
         /\ arg' = Some(params)
         /\ investment' = from_params(params).ok
         /\ response' = from_params(params).err
    /\ op' = "from_params"
    /\ pc' = "done"
    /\ UNCHANGED <<summary, stdout, stderr, panicked, plot, chart>>

\* POST /compound-interests
CalculateInvestment ==
    /\ pc = "start"
    /\ \E body \in Bodies :
         \E out \in {calculate_investment(body)} :
             /\ arg' = Some(body)
             /\ investment' = out.investment
             /\ summary' = out.summary
             /\ response' = Some(out.response)
    /\ op' = "calculate_investment"
    /\ pc' = "done"
    /\ UNCHANGED <<stdout, stderr, panicked, plot, chart>>

\* one invocation of the command line program
Run ==
    /\ pc = "start"
    /\ \E matches \in Matches, io \in Backends :
         \E out \in {run(matches, io)} :
             /\ arg' = Some(matches)
             /\ investment' = out.investment
             /\ summary' = out.summary
             /\ stdout' = out.stdout
             /\ stderr' = out.stderr
             /\ panicked' = out.panicked
             /\ plot' = out.plot
             /\ chart' = IF IsSome(out.summary)
                         THEN drawn_series(Unwrap(out.summary), out.plot)
                         ELSE <<>>
    /\ op' = "run"
    /\ pc' = "done"
    /\ UNCHANGED response

\* a library call of plot_summary on the summary of an Investment, as run
\* makes it in chart mode
PlotSummaryCall ==
    /\ pc = "start"
    /\ \E self \in Investments, io \in Backends :
         \E result \in {yearly_summary(self)} :
           \E outcome \in {plot_summary(result, io)} :
             /\ arg' = Some(self)
             /\ investment' = Some(self)
             /\ summary' = Some(result)
             /\ plot' = outcome
             /\ panicked' = (outcome = "panic")
             /\ chart' = drawn_series(result, outcome)
    /\ op' = "plot_summary"
    /\ pc' = "done"
    /\ UNCHANGED <<response, stdout, stderr>>

Next ==
    \/ YearlySummaryCall
    \/ FromParamsCall
    \/ CalculateInvestment
    \/ Run
    \/ PlotSummaryCall

Spec == Init /\ [][Next]_vars

\* the engine alone
SpecEngine == Init /\ [][YearlySummaryCall]_vars

\* the validating constructor alone
SpecParams == Init /\ [][FromParamsCall]_vars

\* the HTTP service
SpecHttp == Init /\ [][CalculateInvestment]_vars

\* the command line program
SpecCli == Init /\ [][Run]_vars

\* the engine followed by the chart
SpecPlot == Init /\ [][PlotSummaryCall]_vars

(***************************************************************************)
(* Properties.  Each is stated on the state after the operation has run:   *)
(* arg is the input, the other variables what the operation produced.      *)
(***************************************************************************)
Done(o) == pc = "done" /\ op = o

\* some field of the record p is less than zero
AnyNegative(p) ==
    \/ PartialCmp(p.principal, FromInt(0)) = "lt"
    \/ PartialCmp(p.contribution, FromInt(0)) = "lt"
    \/ PartialCmp(p.rate, FromInt(0)) = "lt"
    \/ p.years < 0

\* the balance on which year i opens: the principal, or the closing balance
\* of the year before
Opening(self, S, i) == IF i = 1 THEN self.principal ELSE S[i - 1].total_amount

\* the Investment of the worked example with its first three snapshots
IsExample(self, S) ==
    /\ self.principal = FromInt(1000)
    /\ self.contribution = FromInt(100)
    /\ self.rate = FromInt(5)
    /\ Len(S) >= 3

\* C1: for a valid Investment yearly_summary returns exactly years
\* snapshots, the i-th (counted from 1) with year = i; years = 0 gives the
\* empty sequence.
C1_OneSnapshotPerYear ==
    Done("yearly_summary") =>
        /\ ~AnyNegative(Unwrap(arg))
        /\ Len(Unwrap(summary)) = Unwrap(arg).years
        /\ \A i \in 1 .. Len(Unwrap(summary)) : Unwrap(summary)[i].year = i
        /\ (Unwrap(arg).years = 0 => Unwrap(summary) = <<>>)

C1_Witness ==
    /\ Done("yearly_summary")
    /\ Unwrap(arg).years = MaxYears
    /\ Len(Unwrap(summary)) = MaxYears
    /\ Unwrap(summary)[MaxYears].year = MaxYears

\* C2: the interest of year i is the opening balance of year i times
\* rate / 100, computed before the contribution of the year is added, and
\* the closing balance is the opening balance plus the sum of the annual
\* contribution and that interest; for 1000, 100, 5 the balances are 2250,
\* 3562.5, 4940.625 and the interests 50, 112.5, 178.125.
C2_InterestOnOpeningBalance ==
    Done("yearly_summary") =>
        /\ \A i \in 1 .. Len(Unwrap(summary)) :
             /\ Unwrap(summary)[i].annual_interest =
                  FMul(Opening(Unwrap(arg), Unwrap(summary), i),
                       FDiv(Unwrap(arg).rate, FromInt(100)))
             /\ Unwrap(summary)[i].total_amount =
                  FAdd(Opening(Unwrap(arg), Unwrap(summary), i),
                       FAdd(FMul(Unwrap(arg).contribution, FromInt(12)),
                            Unwrap(summary)[i].annual_interest))
        /\ IsExample(Unwrap(arg), Unwrap(summary)) =>
             /\ Unwrap(summary)[1].total_amount = FromInt(2250)
             /\ Unwrap(summary)[2].total_amount = FDiv(FromInt(7125), FromInt(2))
             /\ Unwrap(summary)[3].total_amount = FDiv(FromInt(39525), FromInt(8))
             /\ Unwrap(summary)[1].annual_interest = FromInt(50)
             /\ Unwrap(summary)[2].annual_interest = FDiv(FromInt(225), FromInt(2))
             /\ Unwrap(summary)[3].annual_interest = FDiv(FromInt(1425), FromInt(8))

C2_Witness ==
    /\ Done("yearly_summary")
    /\ IsExample(Unwrap(arg), Unwrap(summary))
    /\ Unwrap(summary)[3].total_amount = FDiv(FromInt(39525), FromInt(8))
    /\ FLt(Unwrap(summary)[1].annual_interest, Unwrap(summary)[2].annual_interest)

\* C3: from_params returns the error "Negative values are not allowed" and
\* no Investment when some parameter is negative, and otherwise an
\* Investment with the four parameters unchanged.
C3_FromParamsValidates ==
    Done("from_params") =>
        IF AnyNegative(Unwrap(arg))
        THEN response = Some(NegativeValues) /\ investment = None
        ELSE /\ response = None
             /\ investment = Some(Investment(Unwrap(arg).principal,
                                             Unwrap(arg).contribution,
                                             Unwrap(arg).rate,
                                             Unwrap(arg).years))

C3_Witness ==
    /\ Done("from_params")
    /\ Unwrap(arg).years < 0
    /\ ~FLt(Unwrap(arg).principal, FromInt(0))
    /\ ~FLt(Unwrap(arg).contribution, FromInt(0))
    /\ ~FLt(Unwrap(arg).rate, FromInt(0))
    /\ response = Some(NegativeValues)
    /\ investment = None

\* C4: a command line run given a negative parameter reports "Negative
\* values are not allowed" and neither computes, prints nor draws a
\* projection.
C4_CliRejectsNegative ==
    (Done("run") /\ IsSome(investment) /\ AnyNegative(Unwrap(investment))) =>
        /\ stderr = <<NegativeValues>>
        /\ ~panicked
        /\ summary = None
        /\ stdout = <<>>
        /\ plot = "none"

\* C5: a run in chart mode over an empty snapshot sequence reports the
\* rendering failure on stderr and does not panic.
C5_EmptyChartReported ==
    (Done("run") /\ ~Unwrap(arg).json /\ summary = Some(<<>>)) =>
        /\ ~panicked
        /\ plot = "err"
        /\ stderr = <<FailedToPlot>>

\* the four values a request body stands for: each field as given, or its
\* default 0.0, 1.0, 5.0, 5 when absent
Requested(body) ==
    Investment(IF body.principal = None THEN FromInt(0)
               ELSE Unwrap(body.principal),
               IF body.contribution = None THEN FromInt(1)
               ELSE Unwrap(body.contribution),
               IF body.rate = None THEN FromInt(5) ELSE Unwrap(body.rate),
               IF body.years = None THEN 5 ELSE Unwrap(body.years))

EmptyBody ==
    [principal |-> None, contribution |-> None, rate |-> None, years |-> None]

\* C6: the handler answers a body with a negative (defaulted) field with
\* 400 Bad Request and computes no sequence for it; every other body it
\* answers with 200 OK and the sequence yearly_summary produces for the
\* four values, in its JSON encoding.
C6_HandlerValidates ==
    Done("calculate_investment") =>
        IF AnyNegative(Deserialize(Unwrap(arg)))
        THEN /\ Unwrap(response) = BadRequest(NegativeValues)
             /\ summary = None
             /\ investment = None
        ELSE /\ summary = Some(yearly_summary(Deserialize(Unwrap(arg))))
             /\ Unwrap(response) = Ok200(ToJson(Unwrap(summary)))
             /\ Len(Unwrap(response).json) = Deserialize(Unwrap(arg)).years

C6_Witness ==
    /\ Done("calculate_investment")
    /\ Unwrap(arg).years = Some(-1)
    /\ Unwrap(arg).principal = Some(FromInt(1000))
    /\ Unwrap(response).status = 400
    /\ summary = None

\* C7: every field of the request body is defaulted on its own (0.0, 1.0,
\* 5.0, 5) and every present field keeps its value; the empty body is
\* answered with 5 snapshots.
C7_FieldsDefaultIndependently ==
    Done("calculate_investment") =>
        /\ Unwrap(response).status = 200 <=> ~AnyNegative(Requested(Unwrap(arg)))
        /\ Unwrap(response).status = 200 =>
             /\ investment = Some(Requested(Unwrap(arg)))
             /\ Len(Unwrap(response).json) = Requested(Unwrap(arg)).years
        /\ Unwrap(arg) = EmptyBody =>
             /\ Unwrap(response).status = 200
             /\ Len(Unwrap(response).json) = 5
             /\ Len(Unwrap(summary)) = 5

C7_Witness ==
    /\ Done("calculate_investment")
    /\ Unwrap(arg) = EmptyBody
    /\ Unwrap(response).status = 200
    /\ Len(Unwrap(response).json) = 5

\* C8 as stated: with rate = 0 every snapshot has annual_interest == 0,
\* total_interest == 0 and total_amount == principal + total_contribution.
C8_AsStated ==
    (Done("yearly_summary") /\ Unwrap(arg).rate = FromInt(0)) =>
        \A i \in 1 .. Len(Unwrap(summary)) :
            /\ FEq(Unwrap(summary)[i].annual_interest, FromInt(0))
            /\ FEq(Unwrap(summary)[i].total_interest, FromInt(0))
            /\ FEq(Unwrap(summary)[i].total_amount,
                   FAdd(Unwrap(arg).principal,
                        Unwrap(summary)[i].total_contribution))

\* C8: with rate = 0, every snapshot of a year that opens on a finite
\* balance has annual_interest == 0 and total_interest == 0, and its
\* total_amount is the f64 sum of the opening balance and the annual
\* contribution (the balance grows by contributions only).
C8_ZeroRate ==
    (Done("yearly_summary") /\ Unwrap(arg).rate = FromInt(0)) =>
        \A i \in 1 .. Len(Unwrap(summary)) :
            IsFinite(Opening(Unwrap(arg), Unwrap(summary), i)) =>
                /\ FEq(Unwrap(summary)[i].annual_interest, FromInt(0))
                /\ FEq(Unwrap(summary)[i].total_interest, FromInt(0))
                /\ Unwrap(summary)[i].total_amount =
                     FAdd(Opening(Unwrap(arg), Unwrap(summary), i),
                          Unwrap(summary)[i].annual_contribution)

\* a zero-rate run without overflow in which the balance of year 2 differs
\* from principal + total_contribution by a rounding
C8_Witness ==
    /\ Done("yearly_summary")
    /\ Unwrap(arg).rate = FromInt(0)
    /\ Unwrap(arg).principal = FromInt(1)
    /\ Unwrap(arg).contribution = Cent
    /\ Len(Unwrap(summary)) = MaxYears
    /\ FEq(Unwrap(summary)[MaxYears].total_interest, FromInt(0))
    /\ IsFinite(Unwrap(summary)[MaxYears].total_amount)
    /\ ~FEq(Unwrap(summary)[2].total_amount,
            FAdd(Unwrap(arg).principal, Unwrap(summary)[2].total_contribution))

\* C9 as stated: total_interest never decreases from a snapshot to the
\* next, and the difference of the two equals the annual_interest of the
\* later one.
C9_AsStated ==
    Done("yearly_summary") =>
        \A i \in 1 .. Len(Unwrap(summary)) - 1 :
            /\ FLe(Unwrap(summary)[i].total_interest,
                   Unwrap(summary)[i + 1].total_interest)
            /\ FEq(FSub(Unwrap(summary)[i + 1].total_interest,
                        Unwrap(summary)[i].total_interest),
                   Unwrap(summary)[i + 1].annual_interest)

\* C9: the total_interest of a snapshot is the f64 sum of the
\* total_interest of the snapshot before it and its own annual_interest,
\* and it is not less than the one before unless it is NaN.
C9_InterestAccumulates ==
    Done("yearly_summary") =>
        \A i \in 1 .. Len(Unwrap(summary)) - 1 :
            /\ Unwrap(summary)[i + 1].total_interest =
                 FAdd(Unwrap(summary)[i].total_interest,
                      Unwrap(summary)[i + 1].annual_interest)
            /\ ~IsNaN(Unwrap(summary)[i + 1].total_interest) =>
                 FLe(Unwrap(summary)[i].total_interest,
                     Unwrap(summary)[i + 1].total_interest)

\* a run without overflow in which total_interest grows in year 3 by an
\* amount that differs from the annual_interest of year 3 by a rounding
C9_Witness ==
    /\ Done("yearly_summary")
    /\ Unwrap(arg).rate = FromInt(5)
    /\ Unwrap(arg).principal = FromInt(0)
    /\ Unwrap(arg).contribution = Tenth
    /\ Len(Unwrap(summary)) = MaxYears
    /\ FLt(Unwrap(summary)[2].total_interest, Unwrap(summary)[3].total_interest)
    /\ IsFinite(Unwrap(summary)[3].total_interest)
    /\ ~FEq(FSub(Unwrap(summary)[3].total_interest,
                 Unwrap(summary)[2].total_interest),
            Unwrap(summary)[3].annual_interest)

\* C10: in every snapshot annual_contribution is contribution * 12,
\* principal is the starting principal, and total_contribution of year i
\* is annual_contribution * i.
C10_Contributions ==
    Done("yearly_summary") =>
        \A i \in 1 .. Len(Unwrap(summary)) :
            /\ Unwrap(summary)[i].annual_contribution =
                 FMul(Unwrap(arg).contribution, FromInt(12))
            /\ Unwrap(summary)[i].principal = Unwrap(arg).principal
            /\ Unwrap(summary)[i].total_contribution =
                 FMul(Unwrap(summary)[i].annual_contribution, FromInt(i))
            /\ FEq(Unwrap(summary)[i].total_contribution,
                   FMul(Unwrap(summary)[i].annual_contribution, FromInt(i)))

C10_Witness ==
    /\ Done("yearly_summary")
    /\ IsExample(Unwrap(arg), Unwrap(summary))
    /\ Unwrap(summary)[3].annual_contribution = FromInt(1200)
    /\ Unwrap(summary)[3].total_contribution = FromInt(3600)

\* 2^-50, four units in the last place of a number in [1, 2)
Eps == FDiv(FDiv(FromInt(1), FromInt(2^25)), FromInt(2^25))

\* x and y differ by at most n * Eps * scale
Close(x, y, n, scale) ==
    /\ FLe(FSub(x, y), FMul(FMul(FromInt(n), Eps), scale))
    /\ FLe(FSub(y, x), FMul(FMul(FromInt(n), Eps), scale))

\* principal + total_contribution + total_interest of a snapshot
Accounted(snap) ==
    FAdd(FAdd(snap.principal, snap.total_contribution), snap.total_interest)

\* C11 as stated: in every snapshot total_amount == principal +
\* total_contribution + total_interest, and the value of the chart series
\* "Principal + Contribution" for year i equals total_amount(i) -
\* total_interest(i).
C11_AsStated ==
    Done("plot_summary") =>
        /\ \A i \in 1 .. Len(Unwrap(summary)) :
             FEq(Unwrap(summary)[i].total_amount,
                 Accounted(Unwrap(summary)[i]))
        /\ \A i \in 1 .. Len(chart) :
             FEq(chart[i], FSub(Unwrap(summary)[i].total_amount,
                                Unwrap(summary)[i].total_interest))

\* C11: in every snapshot with a finite total_amount, total_amount and
\* principal + total_contribution + total_interest differ by at most
\* year * 2^-50 * total_amount, and so do the value of the chart series for
\* that year and total_amount - total_interest; a chart that is drawn has
\* one value per snapshot; in the 1000, 100, 5 example both equalities are
\* exact.
C11_AccountingUpToRounding ==
    Done("plot_summary") =>
        /\ plot = "ok" => Len(chart) = Len(Unwrap(summary))
        /\ \A i \in 1 .. Len(Unwrap(summary)) :
             IsFinite(Unwrap(summary)[i].total_amount) =>
                 /\ Close(Unwrap(summary)[i].total_amount,
                          Accounted(Unwrap(summary)[i]),
                          i, Unwrap(summary)[i].total_amount)
                 /\ i <= Len(chart) =>
                      Close(chart[i],
                            FSub(Unwrap(summary)[i].total_amount,
                                 Unwrap(summary)[i].total_interest),
                            i, Unwrap(summary)[i].total_amount)
                 /\ IsExample(Unwrap(arg), Unwrap(summary)) =>
                      /\ Unwrap(summary)[i].total_amount =
                           Accounted(Unwrap(summary)[i])
                      /\ i <= Len(chart) =>
                           chart[i] = FSub(Unwrap(summary)[i].total_amount,
                                           Unwrap(summary)[i].total_interest)

\* a chart drawn without overflow in which both equalities fail in year 2 by
\* a rounding
C11_Witness ==
    /\ Done("plot_summary")
    /\ plot = "ok"
    /\ Unwrap(arg).principal = FromInt(1)
    /\ Unwrap(arg).contribution = Cent
    /\ Unwrap(arg).rate = FromInt(0)
    /\ Len(chart) = MaxYears
    /\ IsFinite(Unwrap(summary)[MaxYears].total_amount)
    /\ ~FEq(Unwrap(summary)[2].total_amount, Accounted(Unwrap(summary)[2]))
    /\ ~FEq(chart[2], FSub(Unwrap(summary)[2].total_amount,
                           Unwrap(summary)[2].total_interest))

====
